---- MODULE Spec2Model ----
(***************************************************************************)
(* Model of casbench.lexer: the Lexer class, its memoized `tokens`         *)
(* property and the scanning loop of Lexer._tokenize.                      *)
(*                                                                         *)
(* A source is a sequence of one-character strings.  Python indices are    *)
(* 0-based; At(src, i) reads src[i] of the Python code.  An optional value *)
(* (Python None or a value) is a sequence of length 0 or 1.                *)
(***************************************************************************)
EXTENDS Integers, Sequences, FiniteSets, TLC

VARIABLES
    source,     \* Lexer._source
    memo,       \* the instance __dict__ entry written by cached_property
    pc,         \* "idle": no request running; "scan": inside _tokenize
    line,       \* local of _tokenize
    column,     \* local of _tokenize
    index,      \* local of _tokenize
    literal,    \* local of _tokenize
    tokens,     \* local of _tokenize
    outcome,    \* how the last finished request ended
    returned,   \* the list object the last successful request returned
    error,      \* what the last raised InvalidLexemeError reports
    scans,      \* number of executions of _tokenize so far
    requests,   \* number of requests for `tokens` so far
    build,      \* whether this interpreter's cached_property holds a lock
    lock,       \* the caller that holds that lock, if any
    callers,    \* the concurrent callers: position, list in hand, outcome
    mutations   \* number of writes callers made to a returned list

vars == <<source, memo, pc, line, column, index, literal, tokens,
          outcome, returned, error, scans, requests,
          build, lock, callers, mutations>>

\* What the sequential requests and the scan leave alone.
callerState == <<build, lock, callers, mutations>>

locals == <<line, column, index, literal, tokens>>

\* Bounds of the model.
MaxLen == 3
MaxRequests == 3

None == <<>>
Some(x) == <<x>>

\* The characters sources are drawn from.  The scan asks five questions of
\* a character: which of " ", ".", "_", "(", ")", ",", "=" it is, and
\* str.isalpha, str.isdigit, str.isnumeric and str.isidentifier; int() and
\* float() ask a sixth, whether it is a decimal digit.  Chars holds the
\* seven characters the code names, and at least one character of every
\* combination of answers that Unicode has:
\*
\*     character  isalpha isdigit isnumeric isidentifier decimal
\*     "a"           x                          x
\*     "U+037A"      x
\*     "U+4E00"      x               x          x
\*     "0", "1"              x       x                      x
\*     "²"                   x       x
\*     "¼"                           x
\*     "U+16EE"                      x          x
\*     "U+2118"                                 x
\*     "\t", "\n"
\*
\* ("_" answers as "U+2118" does, the other six named characters as "\t".)
\* A character above U+00FF cannot be written inside a string of this
\* language; it is written as its code point, so "U+037A" is the single
\* character GREEK YPOGEGRAMMENI, "U+16EE" RUNIC ARLAUG SYMBOL, "U+2118"
\* SCRIPT CAPITAL P and "U+4E00" the CJK ideograph for one.
Chars == {" ", "a", "_", "0", "1", ".", "(", ")", ",", "=", "\t", "\n", "²",
          "¼", "U+037A", "U+16EE", "U+2118", "U+4E00"}

\* str.isalpha, str.isdigit, str.isnumeric and str.isidentifier (of a
\* one-character string) restricted to Chars.
isalpha(c) == c \in {"a", "U+037A", "U+4E00"}
isdigit(c) == c \in {"0", "1", "²"}
isnumeric(c) == c \in {"0", "1", "²", "¼", "U+16EE", "U+4E00"}
isidentifier(c) == c \in {"a", "_", "U+16EE", "U+2118", "U+4E00"}

Sources == UNION {[1..n -> Chars] : n \in 0..MaxLen}

At(src, i) == src[i + 1]
Slice(src, from, length) == SubSeq(src, from + 1, from + length)

\* ------------------------------------------------------------------ tokens

Token(token_type, lexeme, ln, col, lit) ==
    [token_type |-> token_type, lexeme |-> lexeme, line |-> ln,
     column |-> col, literal |-> lit]

\* ------------------------------------------------------- numeric literals

\* The decimal digits int() and float() accept, with their values.
IsDecimal(c) == c \in {"0", "1"}
DigitValue(c) == IF c = "1" THEN 1 ELSE 0

RECURSIVE DigitsValue(_)
DigitsValue(ds) ==
    IF ds = <<>> THEN 0
    ELSE 10 * DigitsValue(SubSeq(ds, 1, Len(ds) - 1)) + DigitValue(ds[Len(ds)])

WithoutDot(number) == SelectSeq(number, LAMBDA c : c # ".")

RECURSIVE DotPosition(_, _)
DotPosition(number, i) ==
    IF i > Len(number) THEN 0
    ELSE IF number[i] = "." THEN i
    ELSE DotPosition(number, i + 1)

RECURSIVE Normalise(_, _)
Normalise(num, scale) ==
    IF scale > 0 /\ num % 10 = 0 THEN Normalise(num \div 10, scale - 1)
    ELSE [num |-> num, scale |-> scale]

\* int(number) and float(number) raise ValueError on a character that is
\* not a decimal digit.
Parses(number) == \A i \in 1..Len(number) : number[i] = "." \/ IsDecimal(number[i])

\* int(number): the value of the digits.
IntLiteral(number) == [type |-> "int", num |-> DigitsValue(number), scale |-> 0]

\* float(number): num / 10^scale in lowest decimal terms, so that equal
\* floats are equal records ("1.0" and "1.00" and "1." are one value).
FloatLiteral(number) ==
    LET n == Normalise(DigitsValue(WithoutDot(number)),
                       Len(number) - DotPosition(number, 1))
    IN  [type |-> "float", num |-> n.num, scale |-> n.scale]

\* --------------------------------------------------------- the inner loops

\* The loop of the identifier branch: the length of the consumed run.
RECURSIVE IdentifierRun(_, _, _)
IdentifierRun(src, idx, length) ==
    IF idx + length >= Len(src) THEN length
    ELSE IF ~isidentifier(At(src, idx + length)) THEN length
    ELSE IdentifierRun(src, idx, length + 1)

\* Fault variant of NumberRun: a '.' ends the run.
RECURSIVE NumberRunStopsAtDot(_, _, _, _)
NumberRunStopsAtDot(src, idx, length, has_decimal_point) ==
    IF idx + length >= Len(src)
    THEN [ok |-> TRUE, length |-> length, has_decimal_point |-> has_decimal_point]
    ELSE LET peek == At(src, idx + length) IN
         IF isalpha(peek) \/ peek = "_"
         THEN [ok |-> FALSE, length |-> length, has_decimal_point |-> has_decimal_point]
         ELSE IF isnumeric(peek)
         THEN NumberRunStopsAtDot(src, idx, length + 1, has_decimal_point)
         ELSE [ok |-> TRUE, length |-> length, has_decimal_point |-> has_decimal_point]

\* Fault variant of NumberRun: a letter or an underscore ends the run
\* instead of raising.
RECURSIVE NumberRunStopsAtLetter(_, _, _, _)
NumberRunStopsAtLetter(src, idx, length, has_decimal_point) ==
    IF idx + length >= Len(src)
    THEN [ok |-> TRUE, length |-> length, has_decimal_point |-> has_decimal_point]
    ELSE LET peek == At(src, idx + length) IN
         IF peek = "."
         THEN IF has_decimal_point
              THEN [ok |-> FALSE, length |-> length, has_decimal_point |-> TRUE]
              ELSE NumberRunStopsAtLetter(src, idx, length + 1, TRUE)
         ELSE IF isnumeric(peek)
         THEN NumberRunStopsAtLetter(src, idx, length + 1, has_decimal_point)
         ELSE [ok |-> TRUE, length |-> length, has_decimal_point |-> has_decimal_point]

\* The loop of the number branch: whether it ended without invalid_lexeme,
\* the length of the consumed run and has_decimal_point.
RECURSIVE NumberRun(_, _, _, _)
NumberRun(src, idx, length, has_decimal_point) ==
    IF idx + length >= Len(src)
    THEN [ok |-> TRUE, length |-> length, has_decimal_point |-> has_decimal_point]
    ELSE LET peek == At(src, idx + length) IN
         IF peek = "."
         THEN IF has_decimal_point
              THEN [ok |-> FALSE, length |-> length, has_decimal_point |-> TRUE]
              ELSE NumberRun(src, idx, length + 1, TRUE)
         ELSE IF isalpha(peek) \/ peek = "_"
         THEN [ok |-> FALSE, length |-> length, has_decimal_point |-> has_decimal_point]
         ELSE IF isnumeric(peek)
         THEN NumberRun(src, idx, length + 1, has_decimal_point)
         ELSE [ok |-> TRUE, length |-> length, has_decimal_point |-> has_decimal_point]

\* ------------------------------------------------------------- the state

NoError == [current |-> "", line |-> -1, column |-> -1, index |-> -1]
NoList == [id |-> 0, toks |-> <<>>]

\* functools.cached_property takes a lock around the computation up to
\* CPython 3.11 and takes none from CPython 3.12 on.
Builds == {"locked", "unlocked"}

\* The callers that request the tokens of one instance concurrently.
Callers == {"c1", "c2"}
NoCaller == "nobody"
Waiting == [pc |-> "start", val |-> NoList, out |-> "none"]

Init ==
    /\ build = "unlocked"
    /\ lock = NoCaller
    /\ callers = [c \in Callers |-> Waiting]
    /\ mutations = 0
    /\ source \in Sources
    /\ memo = None
    /\ pc = "idle"
    /\ line = 0
    /\ column = 0
    /\ index = 0
    /\ literal = None
    /\ tokens = <<>>
    /\ outcome = "none"
    /\ returned = NoList
    /\ error = NoError
    /\ scans = 0
    /\ requests = 0

\* ---------------------------------------------------------- Lexer.tokens

\* Fault variant of Cached: the memoized value is never found.
CachedNever == FALSE

\* cached_property looks the attribute up in the instance first.
Cached == memo # None

\* A request that finds the memoized list returns that list.
TokensCached ==
    /\ pc = "idle"
    /\ requests < MaxRequests
    /\ Cached
    /\ requests' = requests + 1
    /\ outcome' = "tokens"
    /\ returned' = memo[1]
    /\ UNCHANGED <<source, callerState, memo, pc, locals, error, scans>>

\* A request that finds nothing memoized calls _tokenize.
TokensCompute ==
    /\ pc = "idle"
    /\ requests < MaxRequests
    /\ ~Cached
    /\ requests' = requests + 1
    /\ scans' = scans + 1
    /\ pc' = "scan"
    /\ line' = 0
    /\ column' = 0
    /\ index' = 0
    /\ literal' = None
    /\ tokens' = <<>>
    /\ UNCHANGED <<source, callerState, memo, outcome, returned, error>>

\* ------------------------------------------------------- Lexer._tokenize

\* Fault variant of invalid_lexeme: the offending character is skipped and
\* the scan goes on.
InvalidLexemeSkipped(current, ln, col, idx) ==
    /\ column' = col + 1
    /\ index' = idx + 1
    /\ UNCHANGED <<source, callerState, memo, pc, line, literal, tokens,
                   outcome, returned, error, scans, requests>>

\* Fault variant of invalid_lexeme: the tokens recognised so far are left
\* behind as the memoized result.
InvalidLexemeKeepsPartial(current, ln, col, idx) ==
    /\ outcome' = "InvalidLexemeError"
    /\ error' = [current |-> current, line |-> ln, column |-> col, index |-> idx]
    /\ pc' = "idle"
    /\ memo' = Some([id |-> scans, toks |-> tokens])
    /\ UNCHANGED <<source, callerState, locals, returned, scans, requests>>

\* invalid_lexeme(current, line, column, index): the exception leaves
\* _tokenize and the property; nothing is memoized.
invalid_lexeme(current, ln, col, idx) ==
    /\ outcome' = "InvalidLexemeError"
    /\ error' = [current |-> current, line |-> ln, column |-> col, index |-> idx]
    /\ pc' = "idle"
    /\ UNCHANGED <<source, callerState, memo, locals, returned, scans, requests>>

\* An exception of another kind raised inside _tokenize.
Raise(kind) ==
    /\ outcome' = kind
    /\ pc' = "idle"
    /\ UNCHANGED <<source, callerState, memo, locals, returned, error, scans, requests>>

\* Fault variant of LiteralAfterToken: the literal is not cleared.
LiteralKept(lit) == lit

\* `literal = None` after a token is appended.
LiteralAfterToken(lit) == None

\* Fault variant of Emit: the column advances by 1 whatever the length.
EmitColumnByOne(token_type, lexeme, length, lit) ==
    /\ tokens' = Append(tokens, Token(token_type, Some(lexeme), line, column, lit))
    /\ column' = column + 1
    /\ index' = index + length
    /\ literal' = None
    /\ UNCHANGED <<source, callerState, memo, pc, line, outcome, returned, error, scans, requests>>

\* Fault variant of Emit: the cursor is not advanced past the token.
EmitWithoutAdvance(token_type, lexeme, length, lit) ==
    /\ tokens' = Append(tokens, Token(token_type, Some(lexeme), line, column, lit))
    /\ literal' = None
    /\ UNCHANGED <<source, callerState, memo, pc, line, column, index,
                   outcome, returned, error, scans, requests>>

\* The tail of the loop body: build the token, append it, advance.
Emit(token_type, lexeme, length, lit) ==
    /\ tokens' = Append(tokens, Token(token_type, Some(lexeme), line, column, lit))
    /\ column' = column + length
    /\ index' = index + length
    /\ literal' = LiteralAfterToken(lit)
    /\ UNCHANGED <<source, callerState, memo, pc, line, outcome, returned, error, scans, requests>>

Scanning == pc = "scan" /\ index < Len(source)
current == At(source, index)

\* Fault variant of ScanSpace: a tab is skipped like a space.
ScanSpaceOrTab ==
    /\ pc = "scan"
    /\ index < Len(source)
    /\ At(source, index) \in {" ", "\t"}
    /\ column' = column + 1
    /\ index' = index + 1
    /\ UNCHANGED <<source, callerState, memo, pc, line, literal, tokens,
                   outcome, returned, error, scans, requests>>

ScanSpace ==
    /\ Scanning
    /\ current = " "
    /\ column' = column + 1
    /\ index' = index + 1
    /\ UNCHANGED <<source, callerState, memo, pc, line, literal, tokens,
                   outcome, returned, error, scans, requests>>

ScanIdentifier ==
    /\ Scanning
    /\ current # " "
    /\ isalpha(current)
    /\ LET length == IdentifierRun(source, index, 1)
       IN  Emit("identifier", Slice(source, index, length), length, literal)

\* Fault variant of ScanNumber: a failed run is reported at the character
\* the loop stopped on, not at the first character of the run.
ScanNumberReportsOffender ==
    /\ Scanning
    /\ current # " "
    /\ ~isalpha(current)
    /\ isdigit(current)
    /\ LET run == NumberRun(source, index, 1, FALSE)
           number == Slice(source, index, run.length)
       IN  IF ~run.ok
           THEN invalid_lexeme(At(source, index + run.length), line,
                               column + run.length, index + run.length)
           ELSE IF ~Parses(number) THEN Raise("ValueError")
           ELSE IF run.has_decimal_point
           THEN Emit("float_literal", number, run.length, Some(FloatLiteral(number)))
           ELSE Emit("integer_literal", number, run.length, Some(IntLiteral(number)))

ScanNumber ==
    /\ Scanning
    /\ current # " "
    /\ ~isalpha(current)
    /\ isdigit(current)
    /\ LET run == NumberRun(source, index, 1, FALSE)
           number == Slice(source, index, run.length)
       IN  IF ~run.ok THEN invalid_lexeme(current, line, column, index)
           ELSE IF ~Parses(number) THEN Raise("ValueError")
           ELSE IF run.has_decimal_point
           THEN Emit("float_literal", number, run.length, Some(FloatLiteral(number)))
           ELSE Emit("integer_literal", number, run.length, Some(IntLiteral(number)))

Punctuation(c) ==
    /\ Scanning
    /\ current # " "
    /\ ~isalpha(current)
    /\ ~isdigit(current)
    /\ current = c

ScanLeftParenthesis ==
    /\ Punctuation("(")
    /\ Emit("left_parenthesis", <<"(">>, 1, literal)

ScanRightParenthesis ==
    /\ Punctuation(")")
    /\ Emit("right_parenthesis", <<")">>, 1, literal)

ScanComma ==
    /\ Punctuation(",")
    /\ Emit("comma", <<",">>, 1, literal)

\* self.source[index + 1] raises IndexError when index + 1 = len(source).
ScanEqual ==
    /\ Punctuation("=")
    /\ IF index + 1 >= Len(source) THEN Raise("IndexError")
       ELSE IF At(source, index + 1) = "="
       THEN Emit("equal_equal", <<"=", "=">>, 2, literal)
       ELSE invalid_lexeme(current, line, column, index)

ScanOther ==
    /\ Scanning
    /\ current # " "
    /\ ~isalpha(current)
    /\ ~isdigit(current)
    /\ current \notin {"(", ")", ",", "="}
    /\ invalid_lexeme(current, line, column, index)

\* Fault variant of ScanEnd: the returned list is not stored in the instance.
ScanEndNotStored ==
    /\ pc = "scan"
    /\ ~(index < Len(source))
    /\ LET list == [id |-> scans,
                    toks |-> Append(tokens, Token("end_of_file", None, line, column, None))]
       IN  /\ tokens' = list.toks
           /\ returned' = list
    /\ outcome' = "tokens"
    /\ pc' = "idle"
    /\ UNCHANGED <<source, callerState, memo, line, column, index, literal, error, scans, requests>>

\* Fault variant of ScanEnd: no end_of_file token is appended.
ScanEndWithoutEndOfFile ==
    /\ pc = "scan"
    /\ ~(index < Len(source))
    /\ LET list == [id |-> scans, toks |-> tokens]
       IN  /\ memo' = Some(list)
           /\ returned' = list
    /\ outcome' = "tokens"
    /\ pc' = "idle"
    /\ UNCHANGED <<source, callerState, line, column, index, literal, tokens, error, scans, requests>>

\* The loop condition fails: append the end_of_file token and return; the
\* property stores the returned list in the instance.
ScanEnd ==
    /\ pc = "scan"
    /\ ~(index < Len(source))
    /\ LET list == [id |-> scans,
                    toks |-> Append(tokens, Token("end_of_file", None, line, column, None))]
       IN  /\ tokens' = list.toks
           /\ memo' = Some(list)
           /\ returned' = list
    /\ outcome' = "tokens"
    /\ pc' = "idle"
    /\ UNCHANGED <<source, callerState, line, column, index, literal, error, scans, requests>>

Next ==
    \/ TokensCached
    \/ TokensCompute
    \/ ScanSpace
    \/ ScanIdentifier
    \/ ScanNumber
    \/ ScanLeftParenthesis
    \/ ScanRightParenthesis
    \/ ScanComma
    \/ ScanEqual
    \/ ScanOther
    \/ ScanEnd

Spec == Init /\ [][Next]_vars

\* ------------------------------------------- _tokenize as one computation

\* How the loop of _tokenize ends when it runs from the cursor (idx, col)
\* with the tokens toks: the kind of the exception, or "tokens" and the
\* returned list.  The scan reads the source and its own locals only, so a
\* caller's whole scan is one step for every other caller.
RECURSIVE tokenize(_, _, _, _)
tokenize(src, idx, col, toks) ==
    IF ~(idx < Len(src))
    THEN [kind |-> "tokens",
          toks |-> Append(toks, Token("end_of_file", None, 0, col, None))]
    ELSE LET c == At(src, idx)
             raised(kind) == [kind |-> kind, toks |-> <<>>]
             emitted(token_type, length, lit) ==
                 tokenize(src, idx + length, col + length,
                          Append(toks, Token(token_type, Some(Slice(src, idx, length)),
                                             0, col, lit)))
         IN  IF c = " " THEN tokenize(src, idx + 1, col + 1, toks)
             ELSE IF isalpha(c)
             THEN emitted("identifier", IdentifierRun(src, idx, 1), None)
             ELSE IF isdigit(c)
             THEN LET run == NumberRun(src, idx, 1, FALSE)
                      number == Slice(src, idx, run.length)
                  IN  IF ~run.ok THEN raised("InvalidLexemeError")
                      ELSE IF ~Parses(number) THEN raised("ValueError")
                      ELSE IF run.has_decimal_point
                      THEN emitted("float_literal", run.length, Some(FloatLiteral(number)))
                      ELSE emitted("integer_literal", run.length, Some(IntLiteral(number)))
             ELSE IF c = "(" THEN emitted("left_parenthesis", 1, None)
             ELSE IF c = ")" THEN emitted("right_parenthesis", 1, None)
             ELSE IF c = "," THEN emitted("comma", 1, None)
             ELSE IF c = "="
             THEN IF idx + 1 >= Len(src) THEN raised("IndexError")
                  ELSE IF At(src, idx + 1) = "=" THEN emitted("equal_equal", 2, None)
                  ELSE raised("InvalidLexemeError")
             ELSE raised("InvalidLexemeError")

Tokenized(src) == tokenize(src, 0, 0, <<>>)

\* One iteration of the loop of _tokenize, or its exit.
ScanStep ==
    \/ ScanSpace
    \/ ScanIdentifier
    \/ ScanNumber
    \/ ScanLeftParenthesis
    \/ ScanRightParenthesis
    \/ ScanComma
    \/ ScanEqual
    \/ ScanOther
    \/ ScanEnd

\* The first request of an instance: nothing is memoized yet.
FirstRequest == requests = 0 /\ TokensCompute

\* One scan from its start to its end.  Every scan starts from the same
\* fresh locals, so the scan of the first request stands for each of them.
NextFair == FirstRequest \/ ScanStep

\* A scan that has started keeps running: _tokenize is synchronous code
\* that nothing suspends.
SpecFair == Init /\ [][NextFair]_vars /\ WF_vars(ScanStep)

\* ------------------------------------------- concurrent requests (tokens)

sequentialState == <<pc, line, column, index, literal, tokens,
                     outcome, returned, error, requests>>

Move(c, to, val, out) ==
    callers' = [callers EXCEPT ![c] = [pc |-> to, val |-> val, out |-> out]]

Release(c) == lock' = IF lock = c THEN NoCaller ELSE lock

\* cache.get(attrname): a caller that finds the list returns it; one that
\* does not goes on to compute it, under the lock where there is one.
Lookup(c) ==
    /\ callers[c].pc = "start"
    /\ IF Cached THEN Move(c, "done", memo[1], "tokens")
       ELSE IF build = "locked" THEN Move(c, "acquire", NoList, "none")
       ELSE Move(c, "compute", NoList, "none")
    /\ UNCHANGED <<source, memo, scans, build, lock, mutations, sequentialState>>

\* `with self.lock:` blocks while another caller holds the lock.
Acquire(c) ==
    /\ callers[c].pc = "acquire"
    /\ lock = NoCaller
    /\ lock' = c
    /\ Move(c, "recheck", NoList, "none")
    /\ UNCHANGED <<source, memo, scans, build, mutations, sequentialState>>

\* The second look at the cache, with the lock held.
Recheck(c) ==
    /\ callers[c].pc = "recheck"
    /\ IF Cached
       THEN Move(c, "done", memo[1], "tokens") /\ Release(c)
       ELSE Move(c, "compute", NoList, "none") /\ UNCHANGED lock
    /\ UNCHANGED <<source, memo, scans, build, mutations, sequentialState>>

\* self.func(instance): the caller runs _tokenize; an exception leaves the
\* property (and the lock) with nothing stored.
Compute(c) ==
    /\ callers[c].pc = "compute"
    /\ scans' = scans + 1
    /\ LET run == Tokenized(source) IN
       IF run.kind = "tokens"
       THEN /\ Move(c, "store", [id |-> scans + 1, toks |-> run.toks], "none")
            /\ UNCHANGED lock
       ELSE /\ Move(c, "done", NoList, run.kind)
            /\ Release(c)
    /\ UNCHANGED <<source, memo, build, mutations, sequentialState>>

\* cache[attrname] = val; return val.
Store(c) ==
    /\ callers[c].pc = "store"
    /\ memo' = Some(callers[c].val)
    /\ Move(c, "done", callers[c].val, "tokens")
    /\ Release(c)
    /\ UNCHANGED <<source, scans, build, mutations, sequentialState>>

InitConc ==
    /\ build \in Builds
    /\ lock = NoCaller
    /\ callers = [c \in Callers |-> Waiting]
    /\ mutations = 0
    /\ source \in Sources
    /\ memo = None
    /\ pc = "idle"
    /\ line = 0
    /\ column = 0
    /\ index = 0
    /\ literal = None
    /\ tokens = <<>>
    /\ outcome = "none"
    /\ returned = NoList
    /\ error = NoError
    /\ scans = 0
    /\ requests = 0

NextConc ==
    \E c \in Callers :
        \/ Lookup(c)
        \/ Acquire(c)
        \/ Recheck(c)
        \/ Compute(c)
        \/ Store(c)

SpecConc == InitConc /\ [][NextConc]_vars

\* ------------------------------------- what a caller can do with the list

\* Bound on the number of writes of the callers.
MaxMutations == 1

\* The list a request returned is the memoized list object itself.
HoldsList == pc = "idle" /\ Cached /\ returned = memo[1]

WriteList(list) ==
    /\ memo' = Some(list)
    /\ returned' = list
    /\ mutations' = mutations + 1
    /\ UNCHANGED <<source, pc, locals, outcome, error, scans, requests,
                   build, lock, callers>>

\* lexer.tokens[i].lexeme = "a": Token is a dataclass that is not frozen.
SetTokenLexeme ==
    /\ HoldsList
    /\ mutations < MaxMutations
    /\ \E i \in 1..Len(returned.toks) :
          WriteList([returned EXCEPT !.toks[i].lexeme = Some(<<"a">>)])

\* lexer.tokens.pop(): the property returns a plain list.
PopToken ==
    /\ HoldsList
    /\ mutations < MaxMutations
    /\ WriteList([returned EXCEPT !.toks = SubSeq(@, 1, Len(@) - 1)])

NextMut ==
    \/ Next
    \/ SetTokenLexeme
    \/ PopToken

SpecMut == Init /\ [][NextMut]_vars

\* ================================================================ claims

\* The token list of the last request, when that request returned one.
Returns == outcome = "tokens"
Toks == returned.toks

\* Number of consecutive spaces of src from the 0-based position pos on.
RECURSIVE SpaceRun(_, _)
SpaceRun(src, pos) ==
    IF pos >= Len(src) THEN 0
    ELSE IF At(src, pos) # " " THEN 0
    ELSE 1 + SpaceRun(src, pos + 1)

RECURSIVE Spaces(_)
Spaces(n) == IF n <= 0 THEN <<>> ELSE <<" ">> \o Spaces(n - 1)

IsEndOfFile(t) == t.token_type = "end_of_file"
IsNumeric(t) == t.token_type \in {"integer_literal", "float_literal"}

\* ---------------------------------------------------------------- C1
\* C1: whenever the scan dispatches on '=', either the next character
\* exists and is '=' and one equal_equal token with lexeme "==" is appended
\* and the cursor advances by 2, or (in every other case, the '=' being the
\* last character included) the scan fails with InvalidLexemeError.
C1_EqualDispatch ==
    [][(Scanning /\ current = "=") =>
         IF index + 1 < Len(source) /\ At(source, index + 1) = "="
         THEN /\ tokens' = Append(tokens,
                      Token("equal_equal", Some(<<"=", "=">>), line, column, None))
              /\ index' = index + 2
              /\ column' = column + 2
         ELSE /\ outcome' = "InvalidLexemeError"
              /\ pc' = "idle"]_vars

\* ---------------------------------------------------------------- C2
\* The run the claim describes: alphanumeric characters and underscores.
AlnumOrUnderscore(c) == isalpha(c) \/ isdigit(c) \/ c = "_"

RECURSIVE ClaimedIdentifierRun(_, _, _)
ClaimedIdentifierRun(src, idx, length) ==
    IF idx + length >= Len(src) THEN length
    ELSE IF ~AlnumOrUnderscore(At(src, idx + length)) THEN length
    ELSE ClaimedIdentifierRun(src, idx, length + 1)

\* C2: whenever the scan dispatches on an alphabetic character it appends
\* exactly one identifier token whose lexeme is the maximal run of
\* alphanumeric characters and underscores, and moves the cursor past it.
C2_IdentifierMaximalRun ==
    [][(Scanning /\ isalpha(current)) =>
         LET length == ClaimedIdentifierRun(source, index, 1) IN
         /\ tokens' = Append(tokens,
                 Token("identifier", Some(Slice(source, index, length)),
                       line, column, None))
         /\ index' = index + length]_vars

\* ---------------------------------------------------------------- C3
\* C3: a request ends by returning a token sequence or by raising
\* InvalidLexemeError, never with an error of another kind.
C3_OnlyInvalidLexemeError ==
    outcome \in {"none", "tokens", "InvalidLexemeError"}

\* ---------------------------------------------------------------- C4
\* C4 as stated: over any sequence of requests, whatever the source, the
\* scan is executed at most once.
C4_ScanAtMostOnce == scans <= 1

\* C4 as amended: a scan that returns is memoized and no later request
\* scans again, so a successful scan is executed exactly once; while
\* nothing is memoized (every scan so far failed), every request scanned.
C4_ScanOnceWhenMemoized ==
    IF memo # None THEN scans = 1 ELSE scans = requests

C4_Witness == memo # None /\ requests >= 2 /\ pc = "idle"

\* ---------------------------------------------------------------- C5
\* C5: once a request has returned a sequence, every later request
\* returns that same list (the same object, with the same tokens).
C5_SameListAgain ==
    [][Returns => (Returns' /\ returned' = returned)]_vars

C5_Witness ==
    /\ Returns
    /\ pc = "idle"
    /\ requests >= 2
    /\ Len(Toks) >= 2

\* ---------------------------------------------------------------- C6
\* The text obtained by writing the lexemes of toks[i..] at their columns
\* after `text`, filling the gaps with spaces; ok is FALSE when a token
\* starts before the end of what is already written (an overlap).
RECURSIVE Written(_, _, _)
Written(toks, i, text) ==
    IF i > Len(toks) THEN [ok |-> TRUE, text |-> text]
    ELSE IF toks[i].lexeme = None THEN Written(toks, i + 1, text)
    ELSE IF toks[i].column < Len(text) THEN [ok |-> FALSE, text |-> text]
    ELSE Written(toks, i + 1,
                 text \o Spaces(toks[i].column - Len(text)) \o toks[i].lexeme[1])

Rebuilt(toks, n) ==
    LET w == Written(toks, 1, <<>>)
    IN  [ok |-> w.ok, text |-> w.text \o Spaces(n - Len(w.text))]

\* C6: for every source on which the scan succeeds, the lexemes written at
\* their columns with spaces in the uncovered positions give back the
\* source, no two tokens overlap, and the last token is end_of_file.
C6_RoundTrip ==
    Returns =>
        /\ Rebuilt(Toks, Len(source)).ok
        /\ Rebuilt(Toks, Len(source)).text = source
        /\ Len(Toks) >= 1
        /\ IsEndOfFile(Toks[Len(Toks)])

C6_Witness ==
    /\ Returns
    /\ Len(Toks) >= 2
    /\ \E i \in 1..Len(source) : source[i] = " "
    /\ \E i \in 1..Len(Toks) : Toks[i].lexeme # None /\ Len(Toks[i].lexeme[1]) >= 2

\* ---------------------------------------------------------------- C7
LexemeLength(t) == IF t.lexeme = None THEN 0 ELSE Len(t.lexeme[1])

\* C7: in every returned sequence the first token's column is the number
\* of leading spaces, and each later token's column is the column of the
\* token before it plus that token's lexeme length plus the number of
\* spaces that follow that lexeme in the source.
C7_ColumnAccounting ==
    Returns =>
        /\ Toks[1].column = SpaceRun(source, 0)
        /\ \A i \in 1..(Len(Toks) - 1) :
              LET end == Toks[i].column + LexemeLength(Toks[i])
              IN  Toks[i + 1].column = end + SpaceRun(source, end)

C7_Witness ==
    /\ Returns
    /\ Len(Toks) >= 2
    /\ Toks[1].column > 0
    /\ LexemeLength(Toks[1]) >= 2

\* ---------------------------------------------------------------- C8
\* C8: every returned sequence holds exactly one end_of_file token, as its
\* last element, without lexeme and literal and with the length of the
\* source as its column; a source of spaces only (the empty source
\* included) yields that token alone.
C8_EndOfFile ==
    Returns =>
        /\ Len(Toks) >= 1
        /\ Cardinality({i \in 1..Len(Toks) : IsEndOfFile(Toks[i])}) = 1
        /\ IsEndOfFile(Toks[Len(Toks)])
        /\ Toks[Len(Toks)].lexeme = None
        /\ Toks[Len(Toks)].literal = None
        /\ Toks[Len(Toks)].column = Len(source)
        /\ (\A i \in 1..Len(source) : source[i] = " ") => Len(Toks) = 1

C8_Witness ==
    /\ Returns
    /\ Len(source) >= 2
    /\ \A i \in 1..Len(source) : source[i] = " "
    /\ Toks[1].column = Len(source)

\* ---------------------------------------------------------------- C9
\* C9: in every returned sequence a token has a literal exactly when it is
\* an integer_literal or a float_literal, and a lexeme exactly when it is
\* not the end_of_file token.
C9_LiteralAndLexeme ==
    Returns =>
        \A i \in 1..Len(Toks) :
            /\ (Toks[i].literal # None) <=> IsNumeric(Toks[i])
            /\ (Toks[i].lexeme # None) <=> ~IsEndOfFile(Toks[i])

C9_Witness ==
    /\ Returns
    /\ \E i \in 1..Len(Toks) : \E j \in (i + 1)..Len(Toks) :
          /\ IsNumeric(Toks[i])
          /\ ~IsNumeric(Toks[j])
          /\ ~IsEndOfFile(Toks[j])

\* ---------------------------------------------------------------- C10
\* Length of the maximal run of digits and '.' of src from idx on.
RECURSIVE DigitDotRun(_, _, _)
DigitDotRun(src, idx, length) ==
    IF idx + length >= Len(src) THEN length
    ELSE IF ~(isdigit(At(src, idx + length)) \/ At(src, idx + length) = ".")
    THEN length
    ELSE DigitDotRun(src, idx, length + 1)

\* The same run when every numeric character counts (a vulgar fraction,
\* a runic or an ideographic numeral), not only the digits.
RECURSIVE NumericDotRun(_, _, _)
NumericDotRun(src, idx, length) ==
    IF idx + length >= Len(src) THEN length
    ELSE IF ~(isnumeric(At(src, idx + length)) \/ At(src, idx + length) = ".")
    THEN length
    ELSE NumericDotRun(src, idx, length + 1)

Dots(text) == Len(SelectSeq(text, LAMBDA c : c = "."))

\* A second '.' in the run, read either way (the numeric run holds the run
\* of digits).
SecondDot(src, idx) ==
    Dots(Slice(src, idx, NumericDotRun(src, idx, 1))) >= 2

\* A letter or an underscore right after the run, read either way.
FollowedByIdentifierCharacter(src, idx) ==
    \E end \in {idx + DigitDotRun(src, idx, 1), idx + NumericDotRun(src, idx, 1)} :
        end < Len(src) /\ (isalpha(At(src, end)) \/ At(src, end) = "_")

Malformed(src, idx) ==
    SecondDot(src, idx) \/ FollowedByIdentifierCharacter(src, idx)

\* C10: whenever the scan dispatches on a digit whose numeric run holds a
\* second '.', or is immediately followed by a letter or an underscore, the
\* request raises InvalidLexemeError: no token is appended for the run,
\* nothing is returned and nothing is memoized.
C10_MalformedNumeralFails ==
    [][(Scanning /\ isdigit(current) /\ Malformed(source, index)) =>
         /\ outcome' = "InvalidLexemeError"
         /\ pc' = "idle"
         /\ tokens' = tokens
         /\ memo' = None
         /\ returned' = returned]_vars

C10_Witness ==
    /\ outcome = "InvalidLexemeError"
    /\ pc = "idle"
    /\ isdigit(error.current)
    /\ error.index > 0
    /\ Malformed(source, error.index)
    /\ memo = None

\* ---------------------------------------------------------------- C11
\* C11: whenever the scan dispatches on a digit whose numeric run holds a
\* second '.', the InvalidLexemeError reports the first character of the
\* run with the line, the column and the index at which the run starts.
C11_SecondDotReportedAtRunStart ==
    [][(Scanning /\ isdigit(current) /\ SecondDot(source, index)) =>
         /\ outcome' = "InvalidLexemeError"
         /\ error' = [current |-> At(source, index), line |-> line,
                      column |-> column, index |-> index]]_vars

\* 0-based position of the second '.' of the run that starts at idx.
RECURSIVE SecondDotPosition(_, _, _)
SecondDotPosition(src, pos, seen) ==
    IF At(src, pos) = "."
    THEN IF seen THEN pos ELSE SecondDotPosition(src, pos + 1, TRUE)
    ELSE SecondDotPosition(src, pos + 1, seen)

C11_Witness ==
    /\ outcome = "InvalidLexemeError"
    /\ pc = "idle"
    /\ error.index = 0
    /\ error.column = 0
    /\ isdigit(error.current)
    /\ SecondDot(source, error.index)
    /\ error.index < SecondDotPosition(source, error.index, FALSE)
    /\ error.current # "."

\* ---------------------------------------------------------------- C12
\* C12: whenever the scan dispatches on a digit and the iteration does not
\* raise, it appends exactly one token: a float_literal if the run holds a
\* '.', an integer_literal otherwise, whose lexeme is the maximal run of
\* digits and '.' taken verbatim; the run ends at the end of the input or
\* at a character that is not a digit, '.', letter or underscore, and the
\* cursor advances by the length of the lexeme.
C12_NumericToken ==
    [][(Scanning /\ isdigit(current) /\ pc' = "scan") =>
         LET length == DigitDotRun(source, index, 1)
             text == Slice(source, index, length)
             end == index + length
         IN  /\ Len(tokens') = Len(tokens) + 1
             /\ SubSeq(tokens', 1, Len(tokens)) = tokens
             /\ tokens'[Len(tokens')].token_type =
                    IF Dots(text) >= 1 THEN "float_literal" ELSE "integer_literal"
             /\ tokens'[Len(tokens')].lexeme = Some(text)
             /\ tokens'[Len(tokens')].literal # None
             /\ \/ end = Len(source)
                \/ /\ end < Len(source)
                   /\ ~isdigit(At(source, end))
                   /\ At(source, end) # "."
                   /\ ~isalpha(At(source, end))
                   /\ At(source, end) # "_"
             /\ index' = index + Len(text)
             /\ column' = column + Len(text)]_vars

C12_Witness ==
    /\ Returns
    /\ Len(Toks) >= 2
    /\ Toks[1].token_type = "float_literal"
    /\ Toks[1].lexeme = Some(<<"1", "0", ".">>) \/ Toks[1].lexeme = Some(<<"1", ".", "0">>)
    /\ Toks[1].column = 0
    /\ Toks[2].column = 3

\* ---------------------------------------------------------------- C13
\* The fatal conditions at a token-start position idx of src: a character
\* no token rule starts with, a '=' not followed by '=', a malformed
\* numeral, a numeral the conversion rejects.
NoRuleStartsWith(c) ==
    ~(c \in {" ", "(", ")", ",", "="} \/ isalpha(c) \/ isdigit(c))

LoneEqual(src, idx) ==
    At(src, idx) = "=" /\ ~(idx + 1 < Len(src) /\ At(src, idx + 1) = "=")

ConversionRejects(src, idx) ==
    \E i \in idx..(idx + NumericDotRun(src, idx, 1) - 1) :
        At(src, i) # "." /\ ~IsDecimal(At(src, i))

Fatal(src, idx) ==
    \/ NoRuleStartsWith(At(src, idx))
    \/ LoneEqual(src, idx)
    \/ isdigit(At(src, idx)) /\ (Malformed(src, idx) \/ ConversionRejects(src, idx))

Failed == pc = "idle" /\ outcome \notin {"none", "tokens"}

\* C13: the scan aborts in the iteration that meets a fatal condition, and
\* that is the first one from the left (no token before it started at a
\* fatal position): the request ends with an error, the tokens recognised
\* so far are not returned, nothing is memoized, and the cursor moves past
\* no further character.
C13_AbortAtFirstFatal ==
    [][(Scanning /\ Fatal(source, index)) =>
         /\ pc' = "idle"
         /\ outcome' \notin {"none", "tokens"}
         /\ returned' = NoList
         /\ memo' = None
         /\ index' = index
         /\ tokens' = tokens
         /\ \A k \in 1..Len(tokens) : ~Fatal(source, tokens[k].column)]_vars

C13_Witness ==
    /\ Failed
    /\ Len(tokens) >= 1
    /\ index < Len(source) - 1
    /\ Fatal(source, index)
    /\ memo = None
    /\ returned = NoList

\* ---------------------------------------------------------------- C16
\* C16: an iteration that goes on without appending a token has skipped a
\* space, and only one; an iteration that starts at a character that is
\* not a space, a letter, a digit, '(', ')', ',' or '=' (a tab, a newline,
\* a '.', an underscore, a numeric or identifier character that is neither
\* a letter nor a digit) raises InvalidLexemeError at that character.
C16_OnlySpaceSkipped ==
    [][Scanning =>
         /\ (pc' = "scan" /\ tokens' = tokens) =>
                (current = " " /\ index' = index + 1)
         /\ NoRuleStartsWith(current) =>
                /\ pc' = "idle"
                /\ outcome' = "InvalidLexemeError"
                /\ error' = [current |-> current, line |-> line,
                             column |-> column, index |-> index]
                /\ tokens' = tokens
                /\ memo' = None]_vars

C16_Witness ==
    /\ Failed
    /\ outcome = "InvalidLexemeError"
    /\ Len(source) >= 3
    /\ source[1] = " "
    /\ source[2] = "a"
    /\ error.current \in {"\t", "\n", "_", "."}
    /\ error.index = 2

\* ---------------------------------------------------------------- C17
\* What one iteration at index < len(source) does to the cursor: it fails,
\* or skips one space, or appends one token and moves by its lexeme length.
Progress ==
    \/ /\ pc' = "idle"
       /\ outcome' \notin {"none", "tokens"}
       /\ index' = index
    \/ /\ pc' = "scan"
       /\ current = " "
       /\ tokens' = tokens
       /\ index' = index + 1
    \/ /\ pc' = "scan"
       /\ Len(tokens') = Len(tokens) + 1
       /\ LexemeLength(tokens'[Len(tokens')]) >= 1
       /\ index' = index + LexemeLength(tokens'[Len(tokens')])

\* The exit of the loop: the end_of_file token is appended and returned.
Finish ==
    /\ pc' = "idle"
    /\ outcome' = "tokens"
    /\ Len(tokens') = Len(tokens) + 1
    /\ IsEndOfFile(tokens'[Len(tokens')])
    /\ returned'.toks = tokens'

\* C17: every iteration fails or advances the index by at least 1 (1 for a
\* space, the lexeme length for a token); the index never passes the end of
\* the source; the end_of_file token is appended exactly when the index
\* equals the length of the source; and every scan that has started ends,
\* by returning or by failing.
C17_ProgressAndTermination ==
    /\ [][pc = "scan" =>
            /\ index < Len(source) => Progress
            /\ index = Len(source) <=> Finish]_vars
    /\ [](pc = "scan" => index <= Len(source))
    /\ ((pc = "scan") ~> (pc = "idle"))

C17_Witness ==
    /\ pc = "idle"
    /\ Returns
    /\ Len(source) = MaxLen
    /\ Len(Toks) = 3
    /\ index = Len(source)
    /\ \E i \in 1..Len(source) : source[i] = " "

\* ---------------------------------------------------------------- C18
\* The token t lies in src where its column says: its line is 0 and the
\* source reads its lexeme from column on.
AtItsOffset(src, t) ==
    /\ t.line = 0
    /\ t.lexeme # None =>
           /\ t.column + LexemeLength(t) <= Len(src)
           /\ Slice(src, t.column, LexemeLength(t)) = t.lexeme[1]

\* C18: at every point of the scan the column equals the index and the
\* line is 0; every token, appended or returned, has as column the offset
\* of the source at which its lexeme starts; every InvalidLexemeError
\* reports line 0, a column equal to its index, and the character of the
\* source at that index.
C18_ColumnIsIndex ==
    /\ column = index
    /\ line = 0
    /\ \A k \in 1..Len(tokens) : AtItsOffset(source, tokens[k])
    /\ Returns => \A k \in 1..Len(Toks) : AtItsOffset(source, Toks[k])
    /\ outcome = "InvalidLexemeError" =>
           /\ error.line = 0
           /\ error.column = error.index
           /\ error.index < Len(source)
           /\ error.current = At(source, error.index)

C18_Witness ==
    /\ Failed
    /\ outcome = "InvalidLexemeError"
    /\ error.index = 2
    /\ column = 2
    /\ \E k \in 1..Len(tokens) : tokens[k].column = 0 /\ LexemeLength(tokens[k]) = 2

\* ---------------------------------------------------------------- C19
\* C19: once a request has failed, the instance keeps its source and has
\* nothing memoized, and every later request ends the same way: the same
\* error kind and the same reported character, line, column and index,
\* never a token sequence.
C19_FailsAgainTheSameWay ==
    [][outcome \notin {"none", "tokens"} =>
         /\ outcome' = outcome
         /\ error' = error
         /\ memo' = None
         /\ source' = source]_vars

C19_Witness ==
    /\ Failed
    /\ outcome = "InvalidLexemeError"
    /\ requests >= 2
    /\ scans = requests
    /\ error.index > 0
    /\ Len(tokens) >= 1

\* ---------------------------------------------------------------- C14
\* C14: when several callers request the tokens of one instance
\* concurrently, the scan is executed at most once in every interleaving
\* and all callers obtain the same list.
C14_OneScanForAllCallers ==
    /\ scans <= 1
    /\ \A c, d \in Callers :
          (callers[c].out = "tokens" /\ callers[d].out = "tokens") =>
              callers[c].val = callers[d].val

\* ---------------------------------------------------------------- C15
\* C15: once a token sequence has been produced, nothing a caller does to
\* a Token or to the returned sequence changes the memoized sequence: it
\* holds, and a later request returns, the tokens the scan produced.
C15_TokensImmutable ==
    /\ memo # None => memo[1].toks = Tokenized(source).toks
    /\ Returns => Toks = Tokenized(source).toks

====
